---- MODULE Spec2Model ----
(***************************************************************************)
(* Relationship discovery and visualisation engine of the AI chat archive. *)
(*                                                                         *)
(*   - the similarity scorer of src/src/utils/relationshipService.ts       *)
(*     (calculateSimilarity and its helpers), computed on real strings;    *)
(*   - the relationship service calls (detectAndCreateRelationships,       *)
(*     createManualRelationship, removeRelationship) as processes whose    *)
(*     steps are the awaited backend requests, against the                 *)
(*     chat_relationships table;                                           *)
(*   - the animation-frame loop of NetworkVisualization                    *)
(*     (src/src/components/RelatedChats.tsx, lines 1020-1261).             *)
(*                                                                         *)
(* Scores are JavaScript numbers in the source.  They are modelled as      *)
(* exact rationals [n, d] in lowest terms, so 0.2 + 0.5 * (1/5) is exactly *)
(* 3/10 here (IEEE doubles give 0.30000000000000004 for that sum).         *)
(***************************************************************************)
EXTENDS Integers, Sequences, FiniteSets, Bags, TLC

(***************************************************************************)
(* Bounds of the model                                                     *)
(***************************************************************************)
\* service calls started in one behaviour
MaxCalls == 3
\* content edits in one behaviour
MaxEdits == 1
\* nodes / edges returned by getAllRelationshipsForVisualization
MaxNodes == 2
MaxEdges == 1

(***************************************************************************)
(* Exact rationals                                                         *)
(***************************************************************************)
RECURSIVE GCD(_, _)
GCD(a, b) == IF b = 0 THEN a ELSE GCD(b, a % b)

Abs(x) == IF x < 0 THEN -x ELSE x

\* the rational n/d (d > 0) in lowest terms
Rat(n, d) ==
    LET g == GCD(Abs(n), d)
    IN  [n |-> n \div g, d |-> d \div g]

RAdd(x, y) == Rat(x.n * y.d + y.n * x.d, x.d * y.d)
RMul(x, y) == Rat(x.n * y.n, x.d * y.d)
RLess(x, y) == x.n * y.d < y.n * x.d
RLeq(x, y) == x.n * y.d <= y.n * x.d
RMin(x, y) == IF RLess(y, x) THEN y ELSE x

Zero == Rat(0, 1)
One == Rat(1, 1)

(***************************************************************************)
(* Strings: the JavaScript string operations used by the scorer            *)
(***************************************************************************)
Range(f) == {f[i] : i \in DOMAIN f}

CharAt(s, i) == SubSeq(s, i, i)

UpperCase == "ABCDEFGHIJKLMNOPQRSTUVWXYZ"
LowerCase == "abcdefghijklmnopqrstuvwxyz"
Digits == "0123456789"

CharsOf(s) == {CharAt(s, i) : i \in 1..Len(s)}

UpperChars == CharsOf(UpperCase)

\* String.prototype.toLowerCase on the letters A-Z
LowerOf ==
    [c \in UpperChars |->
        CharAt(LowerCase, CHOOSE i \in 1..Len(UpperCase) : CharAt(UpperCase, i) = c)]

LowerChar(c) == IF c \in UpperChars THEN LowerOf[c] ELSE c

RECURSIVE MapChars(_, _, _)
MapChars(F(_), s, i) ==
    IF i > Len(s) THEN "" ELSE F(CharAt(s, i)) \o MapChars(F, s, i + 1)

toLowerCase(s) == MapChars(LowerChar, s, 1)

\* \w of a JavaScript regular expression: [A-Za-z0-9_]
WordChars == UpperChars \cup CharsOf(LowerCase) \cup CharsOf(Digits) \cup {"_"}

IsWordChar(c) == c \in WordChars

\* \s of a JavaScript regular expression (the whitespace the inputs use)
IsSpace(c) == c \in {" ", "\t", "\n"}

\* one character of .replace(/[^\w\s]/g, ' ')
StripChar(c) == IF IsWordChar(c) \/ IsSpace(c) THEN c ELSE " "

stripPunctuation(s) == MapChars(StripChar, s, 1)

\* .split(/\s+/): the pieces between maximal runs of whitespace, the empty
\* leading and trailing pieces included
RECURSIVE SplitFrom(_, _, _, _)
SplitFrom(s, i, cur, inWs) ==
    IF i > Len(s) THEN <<cur>>
    ELSE IF IsSpace(CharAt(s, i))
         THEN IF inWs THEN SplitFrom(s, i + 1, cur, TRUE)
                      ELSE <<cur>> \o SplitFrom(s, i + 1, "", TRUE)
         ELSE SplitFrom(s, i + 1, cur \o CharAt(s, i), FALSE)

splitWhitespace(s) == SplitFrom(s, 1, "", FALSE)

\* Array.prototype.join(' ')
RECURSIVE join(_)
join(strs) ==
    IF strs = <<>> THEN ""
    ELSE IF Len(strs) = 1 THEN strs[1]
    ELSE strs[1] \o " " \o join(Tail(strs))

\* String.prototype.substring(0, n)
substring(s, n) == IF Len(s) <= n THEN s ELSE SubSeq(s, 1, n)

(***************************************************************************)
(* Similarity scorer (relationshipService.ts, lines 73-143)                *)
(*                                                                         *)
(* A chat is a record                                                      *)
(*   [ai_source, tags, title, summary, messages]                           *)
(* tags is the text[] column (a sequence, duplicates possible), summary is *)
(* <<>> for null and <<s>> for the string s, messages is the sequence of   *)
(* the message contents.                                                   *)
(***************************************************************************)
stopWords ==
    {"the", "a", "an", "and", "or", "but", "in", "on", "at", "to", "for",
     "of", "with", "by", "from", "as", "is", "was", "are", "been", "be",
     "have", "has", "had", "do", "does", "did", "will", "would", "could",
     "should", "may", "might", "can", "this", "that", "these", "those",
     "i", "you", "he", "she", "it", "we", "they", "what", "which", "who",
     "when", "where", "why", "how", "all", "each", "every", "both", "few",
     "more", "most", "other", "some", "such", "no", "nor", "not", "only",
     "own", "same", "so", "than", "too", "very", "just", "about", "me",
     "my", "your", "their", "our"}

\* minimum length (exclusive) of a keyword
MinWordLen == 3
\* characters of the joined message bodies that take part in scoring
MaxBodyChars == 1000

extractKeywords(text) ==
    LET words == splitWhitespace(stripPunctuation(toLowerCase(text)))
    IN  {w \in Range(words) : Len(w) > MinWordLen /\ w \notin stopWords}

extractText(chat) ==
    LET titleWords == toLowerCase(chat.title)
        summaryWords == IF chat.summary # <<>> /\ chat.summary[1] # ""
                        THEN toLowerCase(chat.summary[1]) ELSE ""
        lowered == [i \in DOMAIN chat.messages |-> toLowerCase(chat.messages[i])]
        messageWords == substring(join(lowered), MaxBodyChars)
    IN  titleWords \o " " \o summaryWords \o " " \o messageWords

\* variant: the overlap is divided by the size of the first keyword set
calculateTextSimilarity_overFirst(text1, text2) ==
    LET words1 == extractKeywords(text1)
        words2 == extractKeywords(text2)
        intersection == {w \in words1 : w \in words2}
    IN  IF words1 = {} \/ words2 = {} THEN Zero
        ELSE Rat(Cardinality(intersection), Cardinality(words1))

calculateTextSimilarity(text1, text2) ==
    LET words1 == extractKeywords(text1)
        words2 == extractKeywords(text2)
        intersection == {w \in words1 : w \in words2}
        union == words1 \cup words2
    IN  IF words1 = {} \/ words2 = {} THEN Zero
        ELSE Rat(Cardinality(intersection), Cardinality(union))

Max(a, b) == IF a >= b THEN a ELSE b

\* the weights of the three signals
SourceWeight == Rat(2, 10)
TagWeight == Rat(3, 10)
TextWeight == Rat(5, 10)

Min(a, b) == IF a <= b THEN a ELSE b

\* Math.sqrt, on the perfect squares (the vectors of the inputs have whole
\* magnitudes)
Sqrt(n) == CHOOSE r \in 0..n : r * r = n

RECURSIVE DotProduct(_, _)
DotProduct(vecA, vecB) ==
    IF vecA = <<>> THEN 0
    ELSE Head(vecA) * Head(vecB) + DotProduct(Tail(vecA), Tail(vecB))

\* cosineSimilarity of electron-main.js; an embedding is <<>> when the
\* field is missing and <<vector>> otherwise
cosineSimilarity(vecA, vecB) ==
    IF vecA = <<>> \/ vecB = <<>> THEN Zero
    ELSE IF Len(vecA[1]) # Len(vecB[1]) THEN Zero
    ELSE LET denominator == Sqrt(DotProduct(vecA[1], vecA[1]))
                                * Sqrt(DotProduct(vecB[1], vecB[1]))
         IN  IF denominator = 0 THEN Zero
             ELSE Rat(DotProduct(vecA[1], vecB[1]), denominator)

\* the embedding field of a chat record, <<>> when the record has none
EmbeddingOf(chat) ==
    IF "embedding" \in DOMAIN chat THEN chat.embedding ELSE <<>>

\* variant: when both chats have an embedding, half of the score is the
\* cosine similarity of the embeddings
calculateSimilarity_semantic(chat1, chat2) ==
    LET score0 == IF chat1.ai_source = chat2.ai_source THEN SourceWeight ELSE Zero
        tags1 == Range(chat1.tags)
        tags2 == Range(chat2.tags)
        commonTags == {tag \in tags1 : tag \in tags2}
        score1 == IF Cardinality(commonTags) > 0
                  THEN RAdd(score0,
                            RMul(Rat(Cardinality(commonTags),
                                     Max(Cardinality(tags1), Cardinality(tags2))),
                                 TagWeight))
                  ELSE score0
        textSimilarity == calculateTextSimilarity(extractText(chat1), extractText(chat2))
        score2 == RAdd(score1, RMul(textSimilarity, TextWeight))
        score3 == IF EmbeddingOf(chat1) # <<>> /\ EmbeddingOf(chat2) # <<>>
                  THEN RAdd(RMul(score2, Rat(1, 2)),
                            RMul(cosineSimilarity(EmbeddingOf(chat1), EmbeddingOf(chat2)),
                                 Rat(1, 2)))
                  ELSE score2
    IN  RMin(score3, One)

\* variant: a source mismatch is penalised instead of ignored
calculateSimilarity_penalty(chat1, chat2) ==
    LET score0 == IF chat1.ai_source = chat2.ai_source
                  THEN SourceWeight ELSE Rat(-2, 10)
        tags1 == Range(chat1.tags)
        tags2 == Range(chat2.tags)
        commonTags == {tag \in tags1 : tag \in tags2}
        score1 == IF Cardinality(commonTags) > 0
                  THEN RAdd(score0,
                            RMul(Rat(Cardinality(commonTags),
                                     Max(Cardinality(tags1), Cardinality(tags2))),
                                 TagWeight))
                  ELSE score0
        textSimilarity == calculateTextSimilarity(extractText(chat1), extractText(chat2))
        score2 == RAdd(score1, RMul(textSimilarity, TextWeight))
    IN  RMin(score2, One)

\* variant: the shared tags are divided by the smaller tag set
calculateSimilarity_minTags(chat1, chat2) ==
    LET score0 == IF chat1.ai_source = chat2.ai_source THEN SourceWeight ELSE Zero
        tags1 == Range(chat1.tags)
        tags2 == Range(chat2.tags)
        commonTags == {tag \in tags1 : tag \in tags2}
        score1 == IF Cardinality(commonTags) > 0
                  THEN RAdd(score0,
                            RMul(Rat(Cardinality(commonTags),
                                     Min(Cardinality(tags1), Cardinality(tags2))),
                                 TagWeight))
                  ELSE score0
        textSimilarity == calculateTextSimilarity(extractText(chat1), extractText(chat2))
        score2 == RAdd(score1, RMul(textSimilarity, TextWeight))
    IN  RMin(score2, One)

calculateSimilarity(chat1, chat2) ==
    LET score0 == IF chat1.ai_source = chat2.ai_source THEN SourceWeight ELSE Zero
        tags1 == Range(chat1.tags)
        tags2 == Range(chat2.tags)
        commonTags == {tag \in tags1 : tag \in tags2}
        score1 == IF Cardinality(commonTags) > 0
                  THEN RAdd(score0,
                            RMul(Rat(Cardinality(commonTags),
                                     Max(Cardinality(tags1), Cardinality(tags2))),
                                 TagWeight))
                  ELSE score0
        textSimilarity == calculateTextSimilarity(extractText(chat1), extractText(chat2))
        score2 == RAdd(score1, RMul(textSimilarity, TextWeight))
    IN  RMin(score2, One)

\* variant: a higher threshold
Threshold_half == Rat(1, 2)

\* a score qualifies for persistence when it is above this (exclusive)
Threshold == Rat(3, 10)

Chat(src, tags, title, summary, messages) ==
    [ai_source |-> src, tags |-> tags, title |-> title,
     summary |-> summary, messages |-> messages]

(***************************************************************************)
(* State                                                                   *)
(***************************************************************************)
VARIABLES
    \* the chats table: id -> chat record, or NoChat
    chats,
    \* the chat_relationships table: a bag of rows
    \* [source_chat_id, target_chat_id, relationship_type, similarity_score]
    rels,
    \* the service calls: slot -> activation record of the async function
    call,
    \* calls started and content edits made so far
    nCalls, nEdits,
    \* the last completed detection pass: whose, on which entries, with
    \* which resulting table, and how many passes in a row
    last,
    \* scorer harness: the two chats handed to calculateSimilarity and
    \* what it returned
    in1, in2, out,
    \* NetworkVisualization: component mounted, loadData not yet resolved,
    \* the loading flag, nodes.length, edges.length
    mounted, loadPending, loading, nNodes, nEdges,
    \* animationRef.current (0 for undefined) and the callbacks the browser
    \* holds for the coming animation frames: records [id, run]
    animationRef, frames,
    \* per startSimulation activation (run): its iteration counter, and
    \* whether its simulate has returned at the ceiling check
    iteration, stopped,
    \* RelatedChats panel: panel holds the prop chatId and the state hooks
    \* loading and detecting; handlers are the activations of
    \* handleDetectRelationships in flight, loads the loadRelatedChats calls
    \* of the effect in flight
    panel, handlers, loads,
    \* clicks on the Detect button and changes of the viewed chat so far
    nClicks, nChanges,
    \* App: whether window.electronAPI exists, whether the sqlite build
    \* enforces foreign keys, the React state (chats, links), the sqlite
    \* tables (chats, links) and the localStorage items (chats, links)
    electronAPI, foreignKeys, state, db, localStorage,
    \* the ipc messages the main process has not handled yet, the replies the
    \* renderer has not resumed on yet, the ids handed to handleDelete so far
    \* and the handlers called so far
    ipc, replies, deleted, nOps,
    \* the handler or continuation that ran last: [op, fromId, toId]
    event,
    \* per run: whether initializePositions gave the nodes their positions
    positioned,
    \* NetworkVisualization view: the state hooks zoom, offset, isDragging
    \* and dragStart, and the nodes with their coordinates
    zoom, offset, isDragging, dragStart, layout,
    \* the last view event handled, [op, x, y, selected], and the events so far
    pointer, nEvents

storeVars == <<chats, rels, call, nCalls, nEdits, last>>
scoreVars == <<in1, in2, out>>
simVars == <<mounted, loadPending, loading, nNodes, nEdges, animationRef,
             frames, iteration, stopped, positioned>>
panelVars == <<panel, handlers, loads, nClicks, nChanges>>
appVars == <<electronAPI, foreignKeys, state, db, localStorage, ipc, replies,
             deleted, nOps, event>>
viewVars == <<zoom, offset, isDragging, dragStart, layout, pointer, nEvents>>
vars == <<chats, rels, call, nCalls, nEdits, last, in1, in2, out,
          mounted, loadPending, loading, nNodes, nEdges, animationRef,
          frames, iteration, stopped, panel, handlers, loads, nClicks,
          nChanges, electronAPI, foreignKeys, state, db, localStorage, ipc,
          replies, deleted, nOps, event, positioned, zoom, offset,
          isDragging, dragStart, layout, pointer, nEvents>>

(***************************************************************************)
(* Inputs                                                                  *)
(***************************************************************************)
Sources == {"ChatGPT", "Claude"}

TagLists ==
    {<<>>, <<"react">>, <<"react", "frontend">>, <<"react", "backend">>,
     <<"frontend", "react", "react">>}

\* <<title, summary, messages>>
Texts ==
    {<<"A", <<"building dashboards">>, <<>> >>,
     <<"B", <<"building dashboards with react">>, <<>> >>,
     <<"The API, and THAT!", <<>>, <<>> >>,
     <<"React-Hooks", <<"">>, <<"How do I build a Dashboard?", "Use hooks; they work.">> >>,
     <<"hooks_v2 about:state", <<"Building\tDASHBOARDS">>, <<"react\nhooks">> >>}

ScoreInputs ==
    {Chat(src, tags, t[1], t[2], t[3]) : src \in Sources, tags \in TagLists, t \in Texts}

NoResult == [n |-> -1, d |-> 1]

InitStoreIdle ==
    /\ chats = <<>> /\ rels = EmptyBag /\ call = <<>>
    /\ nCalls = 0 /\ nEdits = 0 /\ last = <<>>

InitScoreIdle == in1 = <<>> /\ in2 = <<>> /\ out = NoResult

InitSimIdle ==
    /\ mounted = FALSE /\ loadPending = FALSE /\ loading = TRUE
    /\ nNodes = 0 /\ nEdges = 0 /\ animationRef = 0 /\ frames = {}
    /\ iteration = <<>> /\ stopped = <<>> /\ positioned = <<>>

InitPanelIdle ==
    /\ panel = <<>> /\ handlers = EmptyBag /\ loads = EmptyBag
    /\ nClicks = 0 /\ nChanges = 0

InitAppIdle ==
    /\ electronAPI = FALSE /\ foreignKeys = FALSE
    /\ state = <<>> /\ db = <<>> /\ localStorage = <<>>
    /\ ipc = <<>> /\ replies = <<>> /\ deleted = {} /\ nOps = 0 /\ event = <<>>

InitViewIdle ==
    /\ zoom = <<>> /\ offset = <<>> /\ isDragging = FALSE /\ dragStart = <<>>
    /\ layout = <<>> /\ pointer = <<>> /\ nEvents = 0

(***************************************************************************)
(* The archive and the chat_relationships table                            *)
(***************************************************************************)
Ids == {"a", "b", "c"}

\* contents an entry of the archive can have
ProfileA == Chat("ChatGPT", <<"react", "frontend">>, "A", <<"building dashboards">>, <<>>)
ProfileB == Chat("Claude", <<"react", "backend">>, "B", <<"building dashboards with react">>, <<>>)
ProfileC == Chat("Gemini", <<"frontend", "react">>, "The API, and THAT!", <<>>, <<>>)
Profiles == {ProfileA, ProfileB, ProfileC}

\* calculateSimilarity on the contents of the archive, computed once
Similarity == [pair \in Profiles \X Profiles |-> calculateSimilarity(pair[1], pair[2])]

Row(src, tgt, type, score) ==
    [source_chat_id |-> src, target_chat_id |-> tgt,
     relationship_type |-> type, similarity_score |-> score]

Rows == BagToSet(rels)
RowsAt(src, tgt) == {r \in Rows : r.source_chat_id = src /\ r.target_chat_id = tgt}

SameKey(r, q) ==
    r.source_chat_id = q.source_chat_id /\ r.target_chat_id = q.target_chat_id

\* the rows of table that satisfy keep, with their multiplicities
Restrict(table, keep(_)) ==
    LET kept == {r \in BagToSet(table) : keep(r)}
    IN  [r \in kept |-> table[r]]

\* variant: the conflict target is the target column alone
upsert_onTarget(table, row) ==
    LET others(r) == r.target_chat_id # row.target_chat_id
    IN  Restrict(table, others) (+) SetToBag({row})

\* variant: a plain insert, the conflict target is not consulted
upsert_append(table, row) == table (+) SetToBag({row})

\* .upsert(row, {onConflict: 'source_chat_id,target_chat_id',
\*               ignoreDuplicates: false})
upsert(table, row) ==
    LET others(r) == ~SameKey(r, row)
    IN  Restrict(table, others) (+) SetToBag({row})

\* .delete().eq('source_chat_id', src).eq('target_chat_id', tgt)
delete(table, src, tgt) ==
    LET others(r) == ~(r.source_chat_id = src /\ r.target_chat_id = tgt)
    IN  Restrict(table, others)

(***************************************************************************)
(* Service calls.  An activation record is                                 *)
(*   [op, pc, a, b, cur, queue, issued, failed, data, result]              *)
(* pc is the awaited request the call is suspended at, cur the chat read   *)
(* by the first query, queue the relationships still to upsert, issued the *)
(* keys of the rows the call has sent to the table so far, failed whether  *)
(* one of its requests failed, data what the first query of a read call    *)
(* returned and result the value the call returns (<<>> for a function     *)
(* that returns nothing).  A request ends in one of three ways: "ok",      *)
(* "error" (the client resolves with {data: null, error}) or "throw" (the  *)
(* promise rejects and control goes to the catch block).                   *)
(***************************************************************************)
Slots == {1, 2}

NoChat == Chat("", <<>>, "", <<>>, <<>>)

IdleCall ==
    [op |-> "none", pc |-> "idle", a |-> "", b |-> "", cur |-> NoChat,
     queue |-> <<>>, issued |-> {}, failed |-> FALSE, data |-> <<>>,
     result |-> <<>>]

Free(s) == call[s].pc \in {"idle", "done"}
NoCallInFlight == \A s \in Slots : Free(s)

\* the activation records of returned calls are dropped when anything else
\* happens
Forget(c) == [s \in Slots |-> IF c[s].pc = "done" THEN IdleCall ELSE c[s]]

NoLast == [id |-> "", chats |-> <<>>, rels |-> EmptyBag, n |-> 0]

SameAsLast(id) == last.n > 0 /\ last.id = id /\ last.chats = chats

\* all orders in which a query can return the rows with the ids of S
Orders(S) ==
    {q \in [1..Cardinality(S) -> S] : \A i, j \in DOMAIN q : i # j => q[i] # q[j]}

\* variant: only the row from the current chat to the other chat is pushed
RelationshipsFor_oneWay(chatId, otherId, score) ==
    IF RLess(Threshold, score)
    THEN <<Row(chatId, otherId, "ai_detected", score)>>
    ELSE <<>>

\* variant: the threshold is inclusive
RelationshipsFor_inclusive(chatId, otherId, score) ==
    IF RLeq(Threshold, score)
    THEN <<Row(chatId, otherId, "ai_detected", score),
           Row(otherId, chatId, "ai_detected", score)>>
    ELSE <<>>

\* body of the loop over allChats: what one other chat adds to relationships
RelationshipsFor(chatId, otherId, score) ==
    IF RLess(Threshold, score)
    THEN <<Row(chatId, otherId, "ai_detected", score),
           Row(otherId, chatId, "ai_detected", score)>>
    ELSE <<>>

\* the relationships array after the loop, allChats being the ids in order
\* and others their chat records
RECURSIVE Relationships(_, _, _, _)
Relationships(chatId, currentChat, allChats, others) ==
    IF allChats = <<>> THEN <<>>
    ELSE RelationshipsFor(chatId, Head(allChats),
                          Similarity[currentChat, others[Head(allChats)]])
         \o Relationships(chatId, currentChat, Tail(allChats), others)

\* the call returns (from the try block or from the catch block): its record
\* stays readable until the next event
Return(c, ok) ==
    [c EXCEPT !.pc = "done", !.queue = <<>>, !.failed = c.failed \/ ~ok]

\* history of the last completed detection pass
LastAfter(c, table) ==
    IF c.op # "detect" \/ c.failed THEN NoLast
    ELSE IF SameAsLast(c.a) THEN [last EXCEPT !.n = last.n + 1]
    ELSE [id |-> c.a, chats |-> chats, rels |-> table, n |-> 1]

Outcomes == {"ok", "error", "throw"}

\* the archive at the start: three entries, or two with the id "c" unused
InitialChats == [id \in Ids |-> CASE id = "a" -> ProfileA
                                  [] id = "b" -> ProfileB
                                  [] OTHER -> ProfileC]

Key(r) == <<r.source_chat_id, r.target_chat_id>>

InitStore ==
    /\ chats \in {InitialChats, [id \in Ids \ {"c"} |-> InitialChats[id]]}
    /\ rels = EmptyBag
    /\ call = [s \in Slots |-> IdleCall]
    /\ nCalls = 0 /\ nEdits = 0 /\ last = NoLast

\* detectAndCreateRelationships(chatId) is called and issues its first query
StartDetect(s, chatId) ==
    /\ Free(s) /\ nCalls < MaxCalls
    /\ call' = [Forget(call) EXCEPT
                  ![s] = [IdleCall EXCEPT !.op = "detect", !.pc = "selectCurrent",
                                          !.a = chatId]]
    /\ nCalls' = nCalls + 1
    /\ last' = IF SameAsLast(chatId) THEN last ELSE NoLast
    /\ UNCHANGED <<chats, rels, nEdits, scoreVars, simVars, panelVars, appVars,
                 viewVars>>

\* lines 13-19: the query for the current chat resolves
SelectCurrent(s, f) ==
    /\ call[s].pc = "selectCurrent"
    /\ LET c == call[s]
           found == f = "ok" /\ c.a \in DOMAIN chats
           c2 == IF found
                 THEN [c EXCEPT !.pc = "selectOthers", !.cur = chats[c.a]]
                 ELSE Return(c, f = "ok")
       IN  /\ call' = [call EXCEPT ![s] = c2]
           /\ last' = IF found THEN last ELSE LastAfter(c2, rels)
    /\ UNCHANGED <<chats, rels, nCalls, nEdits, scoreVars, simVars, panelVars, appVars,
                 viewVars>>

\* lines 21-58: the query for the other chats resolves with its rows in the
\* given order, the scores are computed and the relationships collected
SelectOthers(s, f, allChats) ==
    /\ call[s].pc = "selectOthers"
    /\ allChats \in Orders(DOMAIN chats \ {call[s].a})
    /\ LET c == call[s]
           relationships ==
               IF f = "ok" THEN Relationships(c.a, c.cur, allChats, chats) ELSE <<>>
           c2 == IF relationships # <<>>
                 THEN [c EXCEPT !.pc = "upsert", !.queue = relationships]
                 ELSE Return(c, f = "ok")
       IN  /\ call' = [call EXCEPT ![s] = c2]
           /\ last' = IF relationships # <<>> THEN last ELSE LastAfter(c2, rels)
    /\ UNCHANGED <<chats, rels, nCalls, nEdits, scoreVars, simVars, panelVars, appVars,
                 viewVars>>

\* lines 59-66: one upsert of the loop over relationships resolves
Upsert(s, f) ==
    /\ call[s].pc = "upsert"
    /\ LET c == call[s]
           relationship == Head(c.queue)
           table == IF f = "ok" THEN upsert(rels, relationship) ELSE rels
           sent == [c EXCEPT !.issued = c.issued \cup {Key(relationship)},
                             !.queue = Tail(c.queue),
                             !.failed = c.failed \/ f # "ok"]
           c2 == IF f = "throw" \/ sent.queue = <<>>
                 THEN Return(sent, f = "ok") ELSE sent
       IN  /\ rels' = table
           /\ call' = [call EXCEPT ![s] = c2]
           /\ last' = IF c2.pc = "done" THEN LastAfter(c2, table) ELSE last
    /\ UNCHANGED <<chats, nCalls, nEdits, scoreVars, simVars, panelVars, appVars,
                 viewVars>>

\* createManualRelationship(chatId1, chatId2) is called and issues its
\* upsert of the two rows
StartManual(s, chatId1, chatId2) ==
    /\ Free(s) /\ nCalls < MaxCalls
    /\ chatId1 # chatId2
    /\ {chatId1, chatId2} \subseteq DOMAIN chats
    /\ call' = [Forget(call) EXCEPT
                  ![s] = [IdleCall EXCEPT !.op = "manual", !.pc = "upsertPair",
                                          !.a = chatId1, !.b = chatId2]]
    /\ nCalls' = nCalls + 1
    /\ last' = NoLast
    /\ UNCHANGED <<chats, rels, nEdits, scoreVars, simVars, panelVars, appVars,
                 viewVars>>

\* lines 216-232: the upsert of the two rows (one statement) resolves
UpsertPair(s, f) ==
    /\ call[s].pc = "upsertPair"
    /\ LET c == call[s]
           forward == Row(c.a, c.b, "manual", One)
           backward == Row(c.b, c.a, "manual", One)
           sent == [c EXCEPT !.issued = {Key(forward), Key(backward)}]
       IN  /\ rels' = IF f = "ok" THEN upsert(upsert(rels, forward), backward) ELSE rels
           /\ call' = [call EXCEPT ![s] = Return(sent, f = "ok")]
    /\ UNCHANGED <<chats, nCalls, nEdits, last, scoreVars, simVars, panelVars, appVars,
                 viewVars>>

\* removeRelationship(chatId1, chatId2) is called and issues its first delete
StartRemove(s, chatId1, chatId2) ==
    /\ Free(s) /\ nCalls < MaxCalls
    /\ chatId1 # chatId2
    /\ call' = [Forget(call) EXCEPT
                  ![s] = [IdleCall EXCEPT !.op = "remove", !.pc = "delete1",
                                          !.a = chatId1, !.b = chatId2]]
    /\ nCalls' = nCalls + 1
    /\ last' = NoLast
    /\ UNCHANGED <<chats, rels, nEdits, scoreVars, simVars, panelVars, appVars,
                 viewVars>>

\* lines 240-244: the delete of the row chatId1 -> chatId2 resolves
Delete1(s, f) ==
    /\ call[s].pc = "delete1"
    /\ LET c == call[s]
           sent == [c EXCEPT !.issued = {<<c.a, c.b>>}, !.failed = f # "ok"]
       IN  /\ rels' = IF f = "ok" THEN delete(rels, c.a, c.b) ELSE rels
           /\ call' = [call EXCEPT
                         ![s] = IF f = "throw" THEN Return(sent, FALSE)
                                ELSE [sent EXCEPT !.pc = "delete2"]]
    /\ UNCHANGED <<chats, nCalls, nEdits, last, scoreVars, simVars, panelVars, appVars,
                 viewVars>>

\* lines 246-250: the delete of the row chatId2 -> chatId1 resolves
Delete2(s, f) ==
    /\ call[s].pc = "delete2"
    /\ LET c == call[s]
           sent == [c EXCEPT !.issued = c.issued \cup {<<c.b, c.a>>}]
       IN  /\ rels' = IF f = "ok" THEN delete(rels, c.b, c.a) ELSE rels
           /\ call' = [call EXCEPT ![s] = Return(sent, f = "ok")]
    /\ UNCHANGED <<chats, nCalls, nEdits, last, scoreVars, simVars, panelVars, appVars,
                 viewVars>>

\* the content of an entry changes (the archive store owns the entries)
EditChat(id, content) ==
    /\ nEdits < MaxEdits
    /\ id \in DOMAIN chats
    /\ content # chats[id]
    /\ chats' = [chats EXCEPT ![id] = content]
    /\ nEdits' = nEdits + 1
    /\ call' = Forget(call)
    /\ UNCHANGED <<rels, nCalls, last, scoreVars, simVars, panelVars, appVars,
                 viewVars>>

\* one request of a call in flight resolves with outcome f
Resolve(s, f) ==
    \/ SelectCurrent(s, f)
    \/ \E allChats \in Orders(DOMAIN chats \ {call[s].a}) : SelectOthers(s, f, allChats)
    \/ Upsert(s, f)
    \/ UpsertPair(s, f)
    \/ Delete1(s, f)
    \/ Delete2(s, f)

\* a call takes the first free activation record
FirstFree(s) == Free(s) /\ \A t \in Slots : Free(t) => s <= t

\* a call starts; the calls run one at a time
Start(s) ==
    /\ NoCallInFlight /\ FirstFree(s)
    /\ \/ \E chatId \in Ids : StartDetect(s, chatId)
       \/ \E chatId1, chatId2 \in Ids : StartManual(s, chatId1, chatId2)
       \/ \E chatId1, chatId2 \in Ids : StartRemove(s, chatId1, chatId2)

Edit == NoCallInFlight /\ \E id \in Ids, content \in Profiles : EditChat(id, content)

InitStoreSpec ==
    InitStore /\ InitScoreIdle /\ InitSimIdle /\ InitPanelIdle /\ InitAppIdle
    /\ InitViewIdle

\* the calls run one at a time and every backend request succeeds
Next ==
    \/ \E s \in Slots : Start(s)
    \/ \E s \in Slots : Resolve(s, "ok")
    \/ Edit

Spec == InitStoreSpec /\ [][Next]_vars

\* the calls run one at a time and a backend request may fail
NextFail ==
    \/ \E s \in Slots : Start(s)
    \/ \E s \in Slots, f \in Outcomes : Resolve(s, f)
    \/ Edit

SpecFail == InitStoreSpec /\ [][NextFail]_vars

\* a call starts while a detectAndCreateRelationships call may be suspended
\* at an await
StartConcurrent(s) ==
    /\ FirstFree(s)
    /\ \A t \in Slots : ~Free(t) => call[t].op = "detect"
    /\ \/ \E chatId \in Ids : StartDetect(s, chatId)
       \/ \E chatId1, chatId2 \in Ids : StartManual(s, chatId1, chatId2)
       \/ \E chatId1, chatId2 \in Ids : StartRemove(s, chatId1, chatId2)

\* a call interleaves with a detection at the awaits and every backend
\* request succeeds
NextConcurrent ==
    \/ \E s \in Slots : StartConcurrent(s)
    \/ \E s \in Slots : Resolve(s, "ok")

SpecConcurrent == InitStoreSpec /\ [][NextConcurrent]_vars

(***************************************************************************)
(* Read calls: getRelatedChats and getAllRelationshipsForVisualization     *)
(***************************************************************************)
\* .limit(10)
RelatedLimit == 10

Take(q, n) == SubSeq(q, 1, Min(n, Len(q)))

\* the orders of the rows of S by similarity_score, highest first; rows of
\* equal score come in any order
Descending(S) ==
    {q \in Orders(S) :
        \A i \in 1..(Len(q) - 1) : RLeq(q[i + 1].similarity_score, q[i].similarity_score)}

\* variant: the filter on source_chat_id is missing
selectRelationships_all(table, chatId) ==
    {Take(q, RelatedLimit) : q \in Descending(BagToSet(table))}

\* .select(...).eq('source_chat_id', chatId)
\*     .order('similarity_score', {ascending: false}).limit(10):
\* the answers the table can give
selectRelationships(table, chatId) ==
    LET S == {r \in BagToSet(table) : r.source_chat_id = chatId}
    IN  {Take(q, RelatedLimit) : q \in Descending(S)}

\* .select('*').in('id', chatIds): the answers the archive can give; the
\* query asks for no order
selectIn(archive, chatIds) == Orders(chatIds \cap DOMAIN archive)

\* relationships.find((r) => r.target_chat_id === chat.id)
find(relationships, id) ==
    LET hits == {i \in DOMAIN relationships : relationships[i].target_chat_id = id}
    IN  IF hits = {} THEN <<>>
        ELSE <<relationships[CHOOSE i \in hits : \A j \in hits : i <= j]>>

\* lines 164-171: relatedChats.map(...); an entry of the result is the chat
\* (its id here) with the score and the kind of its relationship
RelatedOf(relationships, relatedChats) ==
    [i \in DOMAIN relatedChats |->
        LET relationship == find(relationships, relatedChats[i])
        IN  [id |-> relatedChats[i],
             similarity_score |->
                 IF relationship = <<>> THEN Zero
                 ELSE relationship[1].similarity_score,
             relationship_type |->
                 IF relationship = <<>> THEN "unknown"
                 ELSE relationship[1].relationship_type]]

\* getRelatedChats(chatId) is called and issues its first query
StartRelated(s, chatId) ==
    /\ Free(s) /\ nCalls < MaxCalls
    /\ call' = [Forget(call) EXCEPT
                  ![s] = [IdleCall EXCEPT !.op = "related",
                                          !.pc = "selectRelationships",
                                          !.a = chatId]]
    /\ nCalls' = nCalls + 1
    /\ last' = NoLast
    /\ UNCHANGED <<chats, rels, nEdits, scoreVars, simVars, panelVars, appVars,
                 viewVars>>

\* lines 147-154: the query for the relationships of the chat resolves
SelectRelationships(s, f, relationships) ==
    /\ call[s].pc = "selectRelationships"
    /\ relationships \in selectRelationships(rels, call[s].a)
    /\ LET c == call[s]
           c2 == IF f = "ok" /\ relationships # <<>>
                 THEN [c EXCEPT !.pc = "selectRelated", !.data = relationships]
                 ELSE Return(c, f = "ok")
       IN  call' = [call EXCEPT ![s] = c2]
    /\ UNCHANGED <<chats, rels, nCalls, nEdits, last, scoreVars, simVars, panelVars, appVars,
                 viewVars>>

\* lines 156-176: the query for the related chats resolves and the result is
\* built
SelectRelated(s, f, relatedChats) ==
    /\ call[s].pc = "selectRelated"
    /\ LET c == call[s]
           chatIds == {c.data[i].target_chat_id : i \in DOMAIN c.data}
       IN  /\ relatedChats \in selectIn(chats, chatIds)
           /\ call' = [call EXCEPT
                         ![s] = [Return(c, f = "ok") EXCEPT
                                   !.result = IF f = "ok"
                                              THEN RelatedOf(c.data, relatedChats)
                                              ELSE <<>>]]
    /\ UNCHANGED <<chats, rels, nCalls, nEdits, last, scoreVars, simVars, panelVars, appVars,
                 viewVars>>

\* .gte('similarity_score', 0.3)
VisualizationThreshold == Rat(3, 10)

\* { nodes: [], edges: [] }
EmptyGraph == <<EmptyBag, EmptyBag>>

\* lines 192-198: one node per chat of the answer (the node carries the id
\* and copies of four fields of the chat); the order of the array is left out
nodes(archive) == SetToBag(DOMAIN archive)

\* variant: every edge has full strength
Edge_unit(rel) ==
    [source |-> rel.source_chat_id, target |-> rel.target_chat_id,
     strength |-> One, type |-> rel.relationship_type]

\* lines 200-205: the graph edge of a relationship row
Edge(rel) ==
    [source |-> rel.source_chat_id, target |-> rel.target_chat_id,
     strength |-> rel.similarity_score, type |-> rel.relationship_type]

\* lines 186-189 and 200-205: one edge per row of the answer, the rows being
\* those with similarity_score >= 0.3; the order of the array is left out
edges(table) ==
    LET atLeast(r) == RLeq(VisualizationThreshold, r.similarity_score)
        relationships == Restrict(table, atLeast)
    IN  [e \in {Edge(r) : r \in BagToSet(relationships)} |->
            relationships[CHOOSE r \in BagToSet(relationships) : Edge(r) = e]]

\* getAllRelationshipsForVisualization() is called and issues its first query
StartVisualize(s) ==
    /\ Free(s) /\ nCalls < MaxCalls
    /\ call' = [Forget(call) EXCEPT
                  ![s] = [IdleCall EXCEPT !.op = "visualize", !.pc = "selectNodes"]]
    /\ nCalls' = nCalls + 1
    /\ last' = NoLast
    /\ UNCHANGED <<chats, rels, nEdits, scoreVars, simVars, panelVars, appVars,
                 viewVars>>

\* lines 181-183: the query for the chats resolves
SelectNodes(s, f) ==
    /\ call[s].pc = "selectNodes"
    /\ LET c == call[s]
           c2 == IF f = "throw"
                 THEN [Return(c, FALSE) EXCEPT !.result = EmptyGraph]
                 ELSE [c EXCEPT !.pc = "selectEdges",
                                !.data = IF f = "ok" THEN <<nodes(chats)>> ELSE <<>>,
                                !.failed = f # "ok"]
       IN  call' = [call EXCEPT ![s] = c2]
    /\ UNCHANGED <<chats, rels, nCalls, nEdits, last, scoreVars, simVars, panelVars, appVars,
                 viewVars>>

\* lines 185-211: the query for the relationships resolves and the graph is
\* built
SelectEdges(s, f) ==
    /\ call[s].pc = "selectEdges"
    /\ LET c == call[s]
           graph == IF f = "ok" /\ c.data # <<>>
                    THEN <<c.data[1], edges(rels)>>
                    ELSE EmptyGraph
       IN  call' = [call EXCEPT
                      ![s] = [Return(c, f = "ok") EXCEPT !.result = graph]]
    /\ UNCHANGED <<chats, rels, nCalls, nEdits, last, scoreVars, simVars, panelVars, appVars,
                 viewVars>>

\* a read call starts
StartRead(s) ==
    /\ NoCallInFlight /\ FirstFree(s)
    /\ \/ \E chatId \in Ids : StartRelated(s, chatId)
       \/ StartVisualize(s)

\* one request of a read call in flight resolves with outcome f
ResolveRead(s, f) ==
    \/ \E relationships \in selectRelationships(rels, call[s].a) :
           SelectRelationships(s, f, relationships)
    \/ \E relatedChats \in UNION {Orders(S) : S \in SUBSET Ids} :
           SelectRelated(s, f, relatedChats)
    \/ SelectNodes(s, f)
    \/ SelectEdges(s, f)

\* the calls run one at a time; the requests of the writing calls succeed,
\* a request of a read call may fail
NextRead ==
    \/ \E s \in Slots : Start(s)
    \/ \E s \in Slots : Resolve(s, "ok")
    \/ Edit
    \/ \E s \in Slots : StartRead(s)
    \/ \E s \in Slots, f \in Outcomes : ResolveRead(s, f)

SpecRead == InitStoreSpec /\ [][NextRead]_vars

(***************************************************************************)
(* Properties of the relationship store                                    *)
(***************************************************************************)
\* the edge a -> b exists iff b -> a exists, and the two have equal score
MirroredAt(a, b) ==
    /\ (RowsAt(a, b) # {}) <=> (RowsAt(b, a) # {})
    /\ \A r \in RowsAt(a, b), q \in RowsAt(b, a) :
           r.similarity_score = q.similarity_score

Mirrored == \A a, b \in Ids : MirroredAt(a, b)

\* both rows of the pair are there, manual, with score 1.0
ManualPair(a, b) ==
    /\ RowsAt(a, b) = {Row(a, b, "manual", One)}
    /\ RowsAt(b, a) = {Row(b, a, "manual", One)}

DetectedPair(a, b) ==
    /\ \E r \in RowsAt(a, b) : r.relationship_type = "ai_detected"
    /\ \E r \in RowsAt(b, a) : r.relationship_type = "ai_detected"

\* C1: after any sequence of successfully completed
\* detectAndCreateRelationships, createManualRelationship and
\* removeRelationship calls, run one at a time with entry content changing
\* between calls, an edge A->B is in the table iff B->A is, with equal score.
C1_Mirrored == NoCallInFlight => Mirrored

\* no call in flight, after at least two calls and a content change, with a
\* detected pair and a manual pair in the table
C1_Witness ==
    /\ NoCallInFlight /\ nCalls >= 2 /\ nEdits >= 1
    /\ \E a, b \in Ids : a # b /\ DetectedPair(a, b)
    /\ \E a, b \in Ids : a # b /\ ManualPair(a, b)

\* a removeRelationship call on the pair {a, b} is in progress
Removing(a, b) ==
    \E s \in Slots : /\ call[s].op = "remove"
                     /\ call[s].pc \in {"delete1", "delete2"}
                     /\ {call[s].a, call[s].b} = {a, b}

\* C2: a manual edge pair (kind manual, score 1.0) between A and B keeps
\* its kind and its score through every later detectAndCreateRelationships
\* pass; it stays manual with score 1.0 until removeRelationship(A, B).
C2_ManualPrecedence ==
    [][\A a, b \in Ids :
          (a # b /\ ManualPair(a, b) /\ ~Removing(a, b)) => ManualPair(a, b)']_vars

\* the detection call in slot s has returned and its entry is in the archive
DetectReturned(s) ==
    call[s].op = "detect" /\ call[s].pc = "done" /\ call[s].a \in DOMAIN chats

\* C3: one detectAndCreateRelationships(A) call writes the edge pair
\* (A->B, B->A) for another entry B iff score(A, B) > 0.3, and issues no
\* write for a pair scoring 0.3 or less.
C3_Threshold ==
    \A s \in Slots :
        DetectReturned(s) =>
            \A other \in DOMAIN chats \ {call[s].a} :
                LET A == call[s].a
                    score == calculateSimilarity(chats[A], chats[other])
                IN  IF RLess(Threshold, score)
                    THEN {<<A, other>>, <<other, A>>} \subseteq call[s].issued
                    ELSE {<<A, other>>, <<other, A>>} \cap call[s].issued = {}

\* a returned detection that wrote the pair of one entry and, because that
\* pair scores exactly 0.3, left the pair of another entry alone
C3_Witness ==
    \E s \in Slots :
        /\ DetectReturned(s)
        /\ \E x, y \in DOMAIN chats \ {call[s].a} :
              /\ <<call[s].a, x>> \in call[s].issued
              /\ <<call[s].a, y>> \notin call[s].issued
              /\ calculateSimilarity(chats[call[s].a], chats[y]) = Threshold

\* C4: calling detectAndCreateRelationships(id) twice in a row with
\* unchanged entries leaves the table with exactly the rows (keys, scores,
\* kinds) it had after the first call.
C4_Idempotent == last.n >= 2 => rels = last.rels

\* the second pass in a row of a detection that has rows to write has
\* returned
C4_Witness ==
    /\ last.n >= 2 /\ NoCallInFlight
    /\ \E s \in Slots : call[s].op = "detect" /\ call[s].issued # {}

\* C10: when a backend write or delete fails during a call, the table is not
\* left asymmetric when the call returns: every pair has both directions
\* with equal score or neither.
C10_NoPartialPair ==
    (NoCallInFlight /\ \E s \in Slots : call[s].failed) => Mirrored

\* C26: after detectAndCreateRelationships(A) has completed without failure,
\* for every other entry B an ai_detected edge pair between A and B is in
\* the table iff the current score(A, B) > 0.3, also when an earlier pass
\* had linked A and B and entry content has changed since.
C26_NoStaleEdge ==
    \A s \in Slots :
        (DetectReturned(s) /\ ~call[s].failed) =>
            \A other \in DOMAIN chats \ {call[s].a} :
                DetectedPair(call[s].a, other)
                    <=> RLess(Rat(3, 10), calculateSimilarity(chats[call[s].a], chats[other]))

\* the rows of the table whose source or target is the entry
RowsOf(table, id) ==
    LET touching(r) == r.source_chat_id = id \/ r.target_chat_id = id
    IN  Restrict(table, touching)

RowsNotOf(table, id) ==
    LET apart(r) == r.source_chat_id # id /\ r.target_chat_id # id
    IN  Restrict(table, apart)

\* C28: detectAndCreateRelationships(A) creates or modifies only edges whose
\* source or target is A: in every step of the call the edges between two
\* entries other than A are unchanged, and no entry is modified.
C28_DetectFrame ==
    [][\A s \in Slots :
          (call # <<>> /\ call[s].op = "detect" /\ ~Free(s)) =>
              /\ RowsNotOf(rels', call[s].a) = RowsNotOf(rels, call[s].a)
              /\ chats' = chats]_vars

\* a detection has written its pairs into a table that holds a pair between
\* two other entries
C28_Witness ==
    \E s \in Slots :
        /\ DetectReturned(s) /\ call[s].issued # {}
        /\ RowsOf(rels, call[s].a) # EmptyBag
        /\ RowsNotOf(rels, call[s].a) # EmptyBag

\* the score of the example pair: tags {react, frontend} and {react, backend},
\* sources ChatGPT and Claude, summaries 'building dashboards' and
\* 'building dashboards with react'
ExampleScore == calculateSimilarity(ProfileA, ProfileB)

\* the entries id and other hold the example pair, either way round
ExamplePair(id, other) ==
    \/ (chats[id] = ProfileA /\ chats[other] = ProfileB)
    \/ (chats[id] = ProfileB /\ chats[other] = ProfileA)

\* C19: the example pair scores above 0.3 (1/2 * 0.3 for the tags plus
\* 2/3 * 0.5 for the keywords, 29/60), and detectAndCreateRelationships on
\* either of the two entries creates the edge pair between them with that
\* score.
C19_ExampleEdgePair ==
    /\ ExampleScore = Rat(29, 60)
    /\ RLess(Rat(3, 10), ExampleScore)
    /\ \A s \in Slots :
           DetectReturned(s) =>
               \A other \in DOMAIN chats \ {call[s].a} :
                   ExamplePair(call[s].a, other) =>
                       /\ RowsAt(call[s].a, other)
                              = {Row(call[s].a, other, "ai_detected", ExampleScore)}
                       /\ RowsAt(other, call[s].a)
                              = {Row(other, call[s].a, "ai_detected", ExampleScore)}

\* a detection on the entry that holds B of the example has returned, as
\* the second call or later, and the pair with the entry that holds A is there
C19_Witness ==
    \E s \in Slots :
        /\ DetectReturned(s) /\ nCalls >= 2
        /\ chats[call[s].a] = ProfileB
        /\ \E other \in DOMAIN chats \ {call[s].a} :
              chats[other] = ProfileA /\ DetectedPair(call[s].a, other)

\* C14: for every interleaving, at their awaits, of a
\* detectAndCreateRelationships call with createManualRelationship,
\* removeRelationship or another detectAndCreateRelationships call, once all
\* the calls have completed the edges A->B and B->A both exist with equal
\* score and kind or are both absent.
C14_MirroredAfterInterleaving ==
    NoCallInFlight =>
        \A a, b \in Ids :
            /\ MirroredAt(a, b)
            /\ \A r \in RowsAt(a, b), q \in RowsAt(b, a) :
                   r.relationship_type = q.relationship_type

\* what the caller of a returned call receives from its await.  Every path
\* of the service functions ends in a return: the catch block logs the error
\* and does not rethrow, and the error field of a response is never read.
Settlement(c) == [status |-> "fulfilled", value |-> c.result]

\* C11: when a query or an upsert throws or returns an error during
\* detectAndCreateRelationships, the caller can tell the failed detection
\* from a successful one by what the call settles with.
C11_FailureReported ==
    \A s \in Slots :
        (call[s].op = "detect" /\ call[s].pc = "done" /\ call[s].failed)
            => Settlement(call[s]) # Settlement([IdleCall EXCEPT !.op = "detect"])

\* a detection or a related-chats query for an id that is not in the archive
MissingCall(s) ==
    call[s].op \in {"detect", "related"} /\ call[s].a \notin DOMAIN chats

C15_OrderedByScore ==
    \A s \in Slots :
        (call[s].op = "related" /\ call[s].pc = "done") =>
            \A i \in 1..(Len(call[s].result) - 1) :
                RLeq(call[s].result[i + 1].similarity_score,
                     call[s].result[i].similarity_score)

\* getAllRelationshipsForVisualization has returned
VisualizeReturned(s) == call[s].op = "visualize" /\ call[s].pc = "done"

\* C17: getAllRelationshipsForVisualization returns one node per stored
\* entry and, for every stored row with score >= 0.3, one graph edge with
\* strength equal to the stored score, and no other edge; when a request
\* fails it returns empty nodes and edges and does not raise.
C17_VisualizationSnapshot ==
    \A s \in Slots :
        VisualizeReturned(s) =>
            LET graphNodes == call[s].result[1]
                graphEdges == call[s].result[2]
                shown(r) == RLeq(Rat(3, 10), r.similarity_score)
                edgeOf(r) == [source |-> r.source_chat_id,
                              target |-> r.target_chat_id,
                              strength |-> r.similarity_score,
                              type |-> r.relationship_type]
            IN  /\ Settlement(call[s]).status = "fulfilled"
                /\ IF call[s].failed
                   THEN graphNodes = EmptyBag /\ graphEdges = EmptyBag
                   ELSE /\ \A id \in Ids :
                              CopiesIn(id, graphNodes) = IF id \in DOMAIN chats THEN 1 ELSE 0
                        /\ \A r \in Rows :
                              shown(r) => CopiesIn(edgeOf(r), graphEdges) = CopiesIn(r, rels)
                        /\ \A e \in BagToSet(graphEdges) :
                              \E r \in Rows : shown(r) /\ e = edgeOf(r)

\* the graph has been returned with a detected edge of strength below 1 and
\* a manual edge
C17_Witness ==
    \E s \in Slots :
        /\ VisualizeReturned(s) /\ ~call[s].failed
        /\ \E e \in BagToSet(call[s].result[2]) : RLess(e.strength, One)
        /\ \E e \in BagToSet(call[s].result[2]) : e.type = "manual"

(***************************************************************************)
(* Scorer harness: calculateSimilarity applied to a pair of chats          *)
(***************************************************************************)
InitScore ==
    /\ in1 \in ScoreInputs /\ in2 \in ScoreInputs /\ out = NoResult
    /\ InitStoreIdle /\ InitViewIdle /\ InitSimIdle /\ InitPanelIdle /\ InitAppIdle

Score ==
    /\ out = NoResult
    /\ out' = calculateSimilarity(in1, in2)
    /\ UNCHANGED <<in1, in2, storeVars, simVars, panelVars, appVars, viewVars>>

NextScore == Score

SpecScore == InitScore /\ [][NextScore]_vars

(***************************************************************************)
(* Properties of the scorer                                                *)
(***************************************************************************)
Scored == out # NoResult

\* C5: for all entries A and B, calculateSimilarity(A, B) equals
\* calculateSimilarity(B, A): what was returned for (in1, in2) is what the
\* scorer returns for the swapped pair.
C5_Symmetry == Scored => out = calculateSimilarity(in2, in1)

\* a scored pair of different entries whose tag sets and keyword sets differ
\* in size and that has a positive score
C5_Witness ==
    /\ Scored /\ RLess(Zero, out)
    /\ Cardinality(Range(in1.tags)) # Cardinality(Range(in2.tags))
    /\ Cardinality(extractKeywords(extractText(in1)))
         # Cardinality(extractKeywords(extractText(in2)))
    /\ extractKeywords(extractText(in1)) \cap extractKeywords(extractText(in2)) # {}

\* C6: for all entries A and B, 0 <= calculateSimilarity(A, B) <= 1.
C6_Range == Scored => RLeq(Zero, out) /\ RLeq(out, One)

\* two different entries whose score reaches the top of the range
C6_Witness == Scored /\ in1 # in2 /\ out = One

\* the three signals as the claim states them
SourceSignal(A, B) == IF A.ai_source = B.ai_source THEN 1 ELSE 0

TagSignal(A, B) ==
    LET tagsA == Range(A.tags)
        tagsB == Range(B.tags)
    IN  IF tagsA = {} \/ tagsB = {} THEN Zero
        ELSE Rat(Cardinality(tagsA \cap tagsB),
                 Max(Cardinality(tagsA), Cardinality(tagsB)))

KeywordSignal(A, B) ==
    LET KA == extractKeywords(extractText(A))
        KB == extractKeywords(extractText(B))
    IN  IF KA = {} \/ KB = {} THEN Zero
        ELSE Rat(Cardinality(KA \cap KB), Cardinality(KA \cup KB))

WeightedSum(A, B) ==
    LET t == TagSignal(A, B)
        j == KeywordSignal(A, B)
    IN  Rat(2 * SourceSignal(A, B) * t.d * j.d + 3 * t.n * j.d + 5 * j.n * t.d,
            10 * t.d * j.d)

\* C7: calculateSimilarity(A, B) equals min(1, 0.2*s + 0.3*t + 0.5*j) with
\* s the source match, t the shared tags over the larger tag set (0 if a tag
\* set is empty) and j the Jaccard index of the keyword sets (0 if a keyword
\* set is empty).
C7_WeightedSum ==
    Scored => out = (IF RLess(One, WeightedSum(in1, in2)) THEN One
                     ELSE WeightedSum(in1, in2))

\* a scored pair in which all three signals contribute and the tag and
\* keyword signals are proper fractions
C7_Witness ==
    /\ Scored
    /\ SourceSignal(in1, in2) = 1
    /\ RLess(Zero, TagSignal(in1, in2)) /\ RLess(TagSignal(in1, in2), One)
    /\ RLess(Zero, KeywordSignal(in1, in2)) /\ RLess(KeywordSignal(in1, in2), One)

\* the embedding fields an entry can have: none, three vectors of one
\* length, an empty vector and a vector of another length
Embeddings == {<<>>, << <<3, 4>> >>, << <<4, 3>> >>, << <<0, 0>> >>, << <<>> >>, << <<1>> >>}

\* the chat with the embedding field e (without the field when e is <<>>)
WithEmbedding(chat, e) ==
    IF e = <<>> THEN chat
    ELSE [f \in DOMAIN chat \cup {"embedding"} |->
             IF f = "embedding" THEN e ELSE chat[f]]

EmbeddingInputs == {WithEmbedding(chat, e) : chat \in Profiles, e \in Embeddings}

WithoutEmbedding(chat) == [f \in DOMAIN chat \ {"embedding"} |-> chat[f]]

InitEmbedding ==
    /\ in1 \in EmbeddingInputs /\ in2 \in EmbeddingInputs /\ out = NoResult
    /\ InitStoreIdle /\ InitViewIdle /\ InitSimIdle /\ InitPanelIdle /\ InitAppIdle

SpecEmbedding == InitEmbedding /\ [][NextScore]_vars

\* C18: the score that is persisted for two entries does not depend on
\* their embedding fields: with an embedding on both, on one or on neither,
\* well formed or not, calculateSimilarity returns the same value, a number
\* in [0, 1].
C18_EmbeddingIndependent ==
    Scored =>
        /\ RLeq(Zero, out) /\ RLeq(out, One)
        /\ \A e1, e2 \in Embeddings :
               calculateSimilarity(WithEmbedding(WithoutEmbedding(in1), e1),
                                   WithEmbedding(WithoutEmbedding(in2), e2)) = out

\* two different entries with embeddings that are close to each other have
\* been scored
C18_Witness ==
    /\ Scored
    /\ WithoutEmbedding(in1) # WithoutEmbedding(in2)
    /\ RLess(Zero, cosineSimilarity(EmbeddingOf(in1), EmbeddingOf(in2)))

(***************************************************************************)
(* The repulsion between two nodes in one simulation step (RelatedChats.tsx *)
(* lines 1096-1106), as a function of the two positions.  Coordinates are  *)
(* exact rationals; the square of the distance is kept in place of the     *)
(* distance, whose only uses here are its square and the test against 0.   *)
(***************************************************************************)
RepulsionConstant == 5000

RNeg(x) == Rat(-x.n, x.d)

\* the coordinates the two nodes are tried at
Coordinates == {Rat(0, 1), Rat(1, 2), Rat(1, 1), Rat(4, 1)}

Positions == {[x |-> x, y |-> y] : x \in Coordinates, y \in Coordinates \ {Rat(4, 1)}}

\* lines 1099-1101: the square of distance = Math.sqrt(dx * dx + dy * dy) || 1
distanceSquared(nodeI, nodeJ) ==
    LET dx == RAdd(nodeJ.x, RNeg(nodeI.x))
        dy == RAdd(nodeJ.y, RNeg(nodeI.y))
        sum == RAdd(RMul(dx, dx), RMul(dy, dy))
    IN  IF sum = Zero THEN One ELSE sum

\* line 1103: repulsion = 5000 / (distance * distance)
repulsion(nodeI, nodeJ) ==
    LET d2 == distanceSquared(nodeI, nodeJ)
    IN  Rat(RepulsionConstant * d2.d, d2.n)

InitRepulsion ==
    /\ in1 \in Positions /\ in2 \in Positions /\ out = NoResult
    /\ InitStoreIdle /\ InitViewIdle /\ InitSimIdle /\ InitPanelIdle /\ InitAppIdle

\* the pass of the inner loop for the pair (i, j)
Repel ==
    /\ out = NoResult
    /\ out' = [distanceSquared |-> distanceSquared(in1, in2),
               repulsion |-> repulsion(in1, in2)]
    /\ UNCHANGED <<in1, in2, storeVars, simVars, panelVars, appVars, viewVars>>

NextRepulsion == Repel

SpecRepulsion == InitRepulsion /\ [][NextRepulsion]_vars

\* C24: for every pair of nodes the distance used as divisor in the repulsion
\* force is at least 1, so the repulsion magnitude never exceeds the
\* repulsion constant 5000, however close the two nodes are.
C24_RepulsionBounded ==
    out # NoResult =>
        /\ RLeq(Rat(1, 1), out.distanceSquared)
        /\ RLeq(out.repulsion, Rat(5000, 1))

(***************************************************************************)
(* NetworkVisualization: the animation-frame loop of the force simulation  *)
(* (RelatedChats.tsx, lines 1020-1141).  Node positions are not part of    *)
(* this state; a physics step is visible as an increment of the run's      *)
(* iteration counter that leaves the run not stopped.                      *)
(***************************************************************************)
maxIterations == 300

\* the simulation part of the state, handed through the effect code
Sim == [animationRef |-> animationRef, frames |-> frames,
        iteration |-> iteration, stopped |-> stopped, positioned |-> positioned]

FrameIds(st) == {f.id : f \in st.frames}

\* variant: the handle of the queued callback is not kept in animationRef
requestAnimationFrame_handleDropped(st, run) ==
    LET id == CHOOSE n \in 1..(Cardinality(st.frames) + 2) :
                  /\ n \notin {f.id : f \in st.frames} \cup {st.animationRef}
                  /\ \A m \in 1..(n - 1) : m \in {f.id : f \in st.frames} \cup {st.animationRef}
    IN  [st EXCEPT !.frames = st.frames \cup {[id |-> id, run |-> run]}]

\* requestAnimationFrame(simulate) of a run: the callback is queued under a
\* handle that no queued callback has and that animationRef does not hold
requestAnimationFrame(st, run) ==
    LET id == CHOOSE n \in 1..(Cardinality(st.frames) + 2) :
                  /\ n \notin FrameIds(st) \cup {st.animationRef}
                  /\ \A m \in 1..(n - 1) : m \in FrameIds(st) \cup {st.animationRef}
    IN  [st EXCEPT !.frames = st.frames \cup {[id |-> id, run |-> run]},
                   !.animationRef = id]

\* cancelAnimationFrame(id)
cancelAnimationFrame(st, id) ==
    [st EXCEPT !.frames = {f \in st.frames : f.id # id}]

\* variant: the ceiling is tested without counting the call
simulate_noCount(st, run) ==
    IF st.iteration[run] > maxIterations
    THEN [st EXCEPT !.stopped[run] = TRUE]
    ELSE requestAnimationFrame(st, run)

\* lines 1086-1138: one call of simulate in the run
simulate(st, run) ==
    LET counted == [st EXCEPT !.iteration[run] = st.iteration[run] + 1]
    IN  IF st.iteration[run] > maxIterations
        THEN [counted EXCEPT !.stopped[run] = TRUE]
        ELSE requestAnimationFrame(counted, run)

\* lines 1082-1141: a new run starts and makes its first simulate call
startSimulation(st) ==
    LET run == Len(st.iteration) + 1
    IN  simulate([st EXCEPT !.iteration = Append(st.iteration, 0),
                            !.stopped = Append(st.stopped, FALSE)], run)

\* variant: the cleanup leaves the pending callback alone
cleanup_noCancel(st) == st

\* lines 1041-1045: the cleanup of the simulation effect
cleanup(st) ==
    IF st.animationRef # 0 THEN cancelAnimationFrame(st, st.animationRef) ELSE st

\* lines 1262-1270 and 1295: the canvas element exists (canvasRef.current is
\* set) in a render that does not show the loading spinner
canvasRendered(loadingFlag) == ~loadingFlag

\* lines 1060-1080: the nodes of the coming run are put on the circle with
\* zero velocity, unless canvasRef.current is null
initializePositions(st, canvas) ==
    [st EXCEPT !.positioned = Append(st.positioned, canvas)]

\* lines 1035-1046: the simulation effect runs again after a render in which
\* nodes.length or edges.length changed: cleanup, then the effect body
rerunEffect(st, nodesLength, canvas) ==
    IF nodesLength > 0
    THEN startSimulation(initializePositions(cleanup(st), canvas))
    ELSE cleanup(st)

SetSim(st) ==
    /\ animationRef' = st.animationRef
    /\ frames' = st.frames
    /\ iteration' = st.iteration
    /\ stopped' = st.stopped
    /\ positioned' = st.positioned

\* the component has rendered once and its effects have run: loadData is
\* waiting for getAllRelationshipsForVisualization, nodes is empty
InitSim ==
    /\ mounted = TRUE /\ loadPending = TRUE /\ loading = TRUE
    /\ nNodes = 0 /\ nEdges = 0 /\ animationRef = 0 /\ frames = {}
    /\ iteration = <<>> /\ stopped = <<>> /\ positioned = <<>>
    /\ InitStoreIdle /\ InitViewIdle /\ InitScoreIdle /\ InitPanelIdle /\ InitAppIdle

\* lines 1052-1058, the three state updates rendered together (batched):
\* getAllRelationshipsForVisualization resolves with n nodes and e edges
LoadDataBatched(n, e) ==
    /\ loadPending
    /\ loadPending' = FALSE
    /\ IF mounted
       THEN /\ nNodes' = n /\ nEdges' = e /\ loading' = FALSE
            /\ SetSim(IF n # nNodes \/ e # nEdges
                   THEN rerunEffect(Sim, n, canvasRendered(FALSE))
                   ELSE Sim)
       ELSE UNCHANGED <<nNodes, nEdges, loading, animationRef, frames, iteration,
                         stopped, positioned>>
    /\ UNCHANGED <<mounted, storeVars, scoreVars, panelVars, appVars, viewVars>>

\* lines 1052-1058, each state update rendered on its own (updates after an
\* await are not batched before React 18)
LoadDataUnbatched(n, e) ==
    /\ loadPending
    /\ loadPending' = FALSE
    /\ IF mounted
       THEN /\ nNodes' = n /\ nEdges' = e /\ loading' = FALSE
            /\ LET afterSetNodes == IF n # nNodes
                                    THEN rerunEffect(Sim, n, canvasRendered(loading))
                                    ELSE Sim
                   afterSetEdges == IF e # nEdges
                                    THEN rerunEffect(afterSetNodes, n, canvasRendered(loading))
                                    ELSE afterSetNodes
               IN  SetSim(afterSetEdges)
       ELSE UNCHANGED <<nNodes, nEdges, loading, animationRef, frames, iteration,
                         stopped, positioned>>
    /\ UNCHANGED <<mounted, storeVars, scoreVars, panelVars, appVars, viewVars>>

\* the browser runs a queued animation-frame callback
AnimationFrame(f) ==
    /\ f \in frames
    /\ SetSim(simulate([Sim EXCEPT !.frames = frames \ {f}], f.run))
    /\ UNCHANGED <<mounted, loadPending, loading, nNodes, nEdges, storeVars, scoreVars, panelVars, appVars,
                 viewVars>>

\* the view is closed: the component unmounts and its effect cleanup runs
Unmount ==
    /\ mounted
    /\ mounted' = FALSE
    /\ SetSim(cleanup(Sim))
    /\ UNCHANGED <<loadPending, loading, nNodes, nEdges, storeVars, scoreVars, panelVars, appVars,
                 viewVars>>

Frame == \E f \in frames : AnimationFrame(f)

NextSim ==
    \/ \E n \in 0..MaxNodes, e \in 0..MaxEdges : LoadDataBatched(n, e)
    \/ \E n \in 0..MaxNodes, e \in 0..MaxEdges : LoadDataUnbatched(n, e)
    \/ Frame
    \/ Unmount

SpecSim == InitSim /\ [][NextSim]_vars

\* the browser keeps delivering animation frames
SpecSimFair == SpecSim /\ WF_vars(Frame)

C9_CancelledOnUnmount ==
    [][~mounted' => (frames' = {} /\ iteration' = iteration)]_vars

\* the view was torn down in the middle of a run
C9_Witness ==
    /\ ~mounted /\ frames = {}
    /\ \E run \in DOMAIN iteration :
          ~stopped[run] /\ iteration[run] > 1 /\ iteration[run] < maxIterations

\* the physics steps (calls of setNodes with the position update, lines
\* 1089-1136) a run has made: every call of simulate but the one that
\* returned at the ceiling test
Steps(run) == IF stopped[run] THEN iteration[run] - 1 ELSE iteration[run]

\* C23: one run of the force simulation applies at most 300 physics steps
\* before it settles.
C23_AtMost300Steps ==
    \A run \in DOMAIN iteration : Steps(run) <= 300

C29_OnePendingCallback ==
    /\ [](Cardinality(frames) <= 1)
    /\ [][Len(iteration') > Len(iteration) =>
            \A f \in frames' : f.run = Len(iteration')]_vars

\* the effect has restarted the simulation while the first loop was still
\* running, and the second loop is on its way
C29_Witness ==
    /\ Len(iteration) = 2 /\ ~stopped[1] /\ iteration[1] >= 1
    /\ iteration[2] > 1 /\ frames # {}

(***************************************************************************)
(* NetworkVisualization: pan, zoom and pick (RelatedChats.tsx, lines       *)
(* 1024-1027 and 1214-1260).  The zoom factor is an exact rational, client *)
(* coordinates and offsets are whole pixels, and the bounding rectangle of *)
(* the canvas starts at the origin of the client area.  An undefined       *)
(* coordinate of a node is <<>>, a number n is <<n>>.                      *)
(***************************************************************************)
MaxEvents == 7

\* x / y for y > 0
RDiv(x, y) == Rat(x.n * y.d, x.d * y.n)
RMax(x, y) == IF RLess(x, y) THEN y ELSE x

ZoomFactor == Rat(12, 10)
MaxZoom == Rat(3, 1)
MinZoom == Rat(3, 10)
PickRadius == 20

Point(x, y) == [x |-> x, y |-> y]
Origin == Point(0, 0)

Node(id, x, y) == [id |-> id, x |-> x, y |-> y]

\* the node arrays the view is exercised on: two nodes apart, a node with a
\* coordinate of exactly 0, a node that was never given a position, and two
\* nodes closer to each other than the pick radius
Layouts ==
    {<<Node("a", <<60>>, <<40>>), Node("b", <<300>>, <<200>>)>>,
     <<Node("a", <<600>>, <<0>>), Node("b", <<60>>, <<40>>)>>,
     <<Node("a", <<>>, <<>>), Node("b", <<60>>, <<40>>)>>,
     <<Node("a", <<60>>, <<40>>), Node("b", <<72>>, <<48>>)>>}

\* the client positions of the mouse events
Clients == {Point(60, 40), Point(72, 48), Point(600, 12)}

\* the last event handled and the id onSelectChat was called with ("" when it
\* was not called)
Pointer(op, client, selected) ==
    [op |-> op, x |-> client.x, y |-> client.y, selected |-> selected]

\* lines 1024-1027: useState(1), useState({x: 0, y: 0}), useState(false),
\* useState({x: 0, y: 0}); the canvas is rendered
InitView ==
    /\ zoom = One /\ offset = Origin /\ isDragging = FALSE /\ dragStart = Origin
    /\ layout \in Layouts
    /\ pointer = Pointer("render", Origin, "") /\ nEvents = 0
    /\ InitStoreIdle /\ InitScoreIdle /\ InitSimIdle /\ InitPanelIdle /\ InitAppIdle

\* variant: the product is not capped
zoomIn_unclamped(prev) == RMul(prev, ZoomFactor)

\* line 1250: prev => Math.min(prev * 1.2, 3)
zoomIn(prev) == RMin(RMul(prev, ZoomFactor), MaxZoom)

\* line 1254: prev => Math.max(prev / 1.2, 0.3)
zoomOut(prev) == RMax(RDiv(prev, ZoomFactor), MinZoom)

\* lines 1249-1251
handleZoomIn ==
    /\ nEvents < MaxEvents
    /\ zoom' = zoomIn(zoom)
    /\ pointer' = Pointer("zoomIn", Origin, "")
    /\ nEvents' = nEvents + 1
    /\ UNCHANGED <<offset, isDragging, dragStart, layout, storeVars, scoreVars,
                   simVars, panelVars, appVars>>

\* lines 1253-1255
handleZoomOut ==
    /\ nEvents < MaxEvents
    /\ zoom' = zoomOut(zoom)
    /\ pointer' = Pointer("zoomOut", Origin, "")
    /\ nEvents' = nEvents + 1
    /\ UNCHANGED <<offset, isDragging, dragStart, layout, storeVars, scoreVars,
                   simVars, panelVars, appVars>>

\* lines 1257-1260
handleReset ==
    /\ nEvents < MaxEvents
    /\ zoom' = One
    /\ offset' = Origin
    /\ pointer' = Pointer("reset", Origin, "")
    /\ nEvents' = nEvents + 1
    /\ UNCHANGED <<isDragging, dragStart, layout, storeVars, scoreVars,
                   simVars, panelVars, appVars>>

\* !v for a coordinate v: undefined and 0 are falsy
Falsy(v) == v = <<>> \/ v = <<0>>

\* p * p + q * q < r * r for integers below Base * Base, computed on
\* base-4096 digits so that no intermediate result leaves 32 bits
Base == 2^12

SquareDigits(n) ==
    LET hi == n \div Base
        lo == n % Base
    IN  <<hi * hi, 2 * hi * lo, lo * lo>>

Carried(c) ==
    LET c1 == c[2] + (c[3] \div Base)
    IN  <<c[1] + (c1 \div Base), c1 % Base, c[3] % Base>>

SumOfSquaresBelow(p, q, r) ==
    /\ Abs(p) < r /\ Abs(q) < r
    /\ LET a == SquareDigits(Abs(p))
           b == SquareDigits(Abs(q))
           lhs == Carried(<<a[1] + b[1], a[2] + b[2], a[3] + b[3]>>)
           rhs == Carried(SquareDigits(r))
       IN  \/ lhs[1] < rhs[1]
           \/ lhs[1] = rhs[1] /\ lhs[2] < rhs[2]
           \/ lhs[1] = rhs[1] /\ lhs[2] = rhs[2] /\ lhs[3] < rhs[3]

\* variant: the test is against the drawn diameter
hits_diameter(node, client, off, z) ==
    /\ ~(Falsy(node.x) \/ Falsy(node.y))
    /\ SumOfSquaresBelow(node.x[1] * z.n - (client.x - off.x) * z.d,
                         node.y[1] * z.n - (client.y - off.y) * z.d,
                         2 * PickRadius * z.n)

\* lines 1220-1228: the predicate handed to nodes.find, on the canvas-space
\* point x = (clientX - rect.left - offset.x) / zoom, y likewise.  With
\* zoom = n/d, dx = node.x - x is (node.x * n - (clientX - offset.x) * d) / n,
\* and Math.sqrt(dx * dx + dy * dy) < 20 compares the squares, times n * n
hits(node, client, off, z) ==
    /\ ~(Falsy(node.x) \/ Falsy(node.y))
    /\ SumOfSquaresBelow(node.x[1] * z.n - (client.x - off.x) * z.d,
                         node.y[1] * z.n - (client.y - off.y) * z.d,
                         PickRadius * z.n)

\* lines 1214-1235: mouse-down at the client position
handleMouseDown(client) ==
    /\ nEvents < MaxEvents
    /\ LET found == {i \in DOMAIN layout : hits(layout[i], client, offset, zoom)}
       IN  IF found # {}
           THEN LET clickedNode == layout[CHOOSE i \in found : \A j \in found : i <= j]
                IN  /\ pointer' = Pointer("down", client, clickedNode.id)
                    /\ UNCHANGED <<isDragging, dragStart>>
           ELSE /\ pointer' = Pointer("down", client, "")
                /\ isDragging' = TRUE
                /\ dragStart' = Point(client.x - offset.x, client.y - offset.y)
    /\ nEvents' = nEvents + 1
    /\ UNCHANGED <<zoom, offset, layout, storeVars, scoreVars, simVars, panelVars,
                   appVars>>

\* lines 1237-1243: mouse-move at the client position
handleMouseMove(client) ==
    /\ nEvents < MaxEvents
    /\ offset' = IF isDragging
                 THEN Point(client.x - dragStart.x, client.y - dragStart.y)
                 ELSE offset
    /\ pointer' = Pointer("move", client, "")
    /\ nEvents' = nEvents + 1
    /\ UNCHANGED <<zoom, isDragging, dragStart, layout, storeVars, scoreVars,
                   simVars, panelVars, appVars>>

\* lines 1245-1247, bound to onMouseUp and to onMouseLeave (lines 1300-1301)
handleMouseUp(op) ==
    /\ nEvents < MaxEvents
    /\ isDragging' = FALSE
    /\ pointer' = Pointer(op, Origin, "")
    /\ nEvents' = nEvents + 1
    /\ UNCHANGED <<zoom, offset, dragStart, layout, storeVars, scoreVars,
                   simVars, panelVars, appVars>>

NextView ==
    \/ handleZoomIn
    \/ handleZoomOut
    \/ handleReset
    \/ \E client \in Clients : handleMouseDown(client)
    \/ \E client \in Clients : handleMouseMove(client)
    \/ handleMouseUp("up")
    \/ handleMouseUp("leave")

SpecView == InitView /\ [][NextView]_vars

(***************************************************************************)
(* Properties of the view                                                  *)
(***************************************************************************)
\* C21: after any sequence of zoom-in, zoom-out, reset and pan-drag events
\* the zoom factor is between 0.3 and 3; reset sets zoom to 1 and offset to
\* (0,0); the zoom controls never change the offset and the mouse events of
\* a drag never change the zoom.
C21_ZoomBounded ==
    /\ [](zoom # <<>> => RLeq(Rat(3, 10), zoom) /\ RLeq(zoom, Rat(3, 1)))
    /\ [][pointer'.op = "reset" => zoom' = Rat(1, 1) /\ offset' = [x |-> 0, y |-> 0]]_vars
    /\ [][pointer'.op \in {"zoomIn", "zoomOut"} => offset' = offset]_vars
    /\ [][pointer'.op \in {"down", "move", "up", "leave"} => zoom' = zoom]_vars

\* a zoom-in has just been capped at 3
C21_Witness ==
    /\ zoom = Rat(3, 1) /\ pointer.op = "zoomIn" /\ nEvents = 7

\* the nodes that have both coordinates (as the component tests it: a
\* coordinate that is undefined or 0 counts as missing) and lie less than 20
\* canvas units from the canvas-space point of the client position
Picked(client) ==
    {i \in DOMAIN layout :
        /\ layout[i].x \notin {<<>>, <<0>>} /\ layout[i].y \notin {<<>>, <<0>>}
        /\ SumOfSquaresBelow(layout[i].x[1] * zoom.n - (client.x - offset.x) * zoom.d,
                             layout[i].y[1] * zoom.n - (client.y - offset.y) * zoom.d,
                             20 * zoom.n)}

MaxClicks == 2
MaxChanges == 2

\* useState(true), useState(false), and the effect of the first render has
\* called loadRelatedChats
InitPanel ==
    /\ \E id \in Ids : /\ panel = [chatId |-> id, loading |-> TRUE, detecting |-> FALSE,
                                  relatedChats |-> <<>>]
                       /\ loads = SetToBag({id})
    /\ handlers = EmptyBag
    /\ nClicks = 0 /\ nChanges = 0
    /\ InitStoreIdle /\ InitViewIdle /\ InitScoreIdle /\ InitSimIdle /\ InitAppIdle

\* an activation of handleDetectRelationships: the await it is suspended at
\* and the chatId of the render that created it
Handler(pc, id) == [pc |-> pc, chatId |-> id]

\* what getRelatedChats(id) resolves with, as <<the call it is the result
\* of>>: the related chats of id, or [] after a failed request (the initial
\* useState([]) is <<>>)
RelatedList(id, f) == <<[chatId |-> id, failed |-> f # "ok"]>>

\* variant: a rejected request rejects the call
detectSettlement_rethrow(f) == IF f = "throw" THEN "rejected" ELSE "fulfilled"

\* relationshipService.ts lines 11-71: the body is a try block whose catch
\* only logs, so the promise is fulfilled whatever the requests did
detectSettlement(f) == "fulfilled"

\* relationshipService.ts lines 145-177: likewise, the catch returns []
getRelatedChatsSettlement(f) == "fulfilled"

\* variant: the button is not disabled while detecting
DetectButtonEnabled_always(p) == ~p.loading

\* the Detect button is rendered (the panel is not showing the spinner) and
\* is not disabled
DetectButtonEnabled(p) == ~p.loading /\ ~p.detecting

\* lines 23-25 and 27-28: the parent renders the panel with another chatId;
\* the effect calls loadRelatedChats, which sets loading and asks for the
\* related chats
ChangeChat(id) ==
    /\ nChanges < MaxChanges
    /\ id # panel.chatId
    /\ panel' = [panel EXCEPT !.chatId = id, !.loading = TRUE]
    /\ loads' = loads (+) SetToBag({id})
    /\ nChanges' = nChanges + 1
    /\ UNCHANGED <<handlers, nClicks, storeVars, scoreVars, simVars, appVars,
                 viewVars>>

\* lines 29-31: getRelatedChats of a load started by the effect settles, its
\* request having ended with f
LoadResolves(id, f) ==
    /\ BagIn(id, loads)
    /\ loads' = loads (-) SetToBag({id})
    /\ panel' = IF getRelatedChatsSettlement(f) = "fulfilled"
                THEN [panel EXCEPT !.relatedChats = RelatedList(id, f),
                                   !.loading = FALSE]
                ELSE panel
    /\ UNCHANGED <<handlers, nClicks, nChanges, storeVars, scoreVars, simVars, appVars,
                 viewVars>>

\* lines 34-36: a click on the Detect button; the handler sets detecting and
\* calls detectAndCreateRelationships(chatId)
ClickDetect ==
    /\ nClicks < MaxClicks
    /\ DetectButtonEnabled(panel)
    /\ panel' = [panel EXCEPT !.detecting = TRUE]
    /\ handlers' = handlers (+) SetToBag({Handler("detect", panel.chatId)})
    /\ nClicks' = nClicks + 1
    /\ UNCHANGED <<loads, nChanges, storeVars, scoreVars, simVars, appVars,
                 viewVars>>

\* lines 36-37 and 27-28: detectAndCreateRelationships settles; the handler
\* calls loadRelatedChats of its render (a rejection would end the handler)
DetectResolves(id, f) ==
    /\ BagIn(Handler("detect", id), handlers)
    /\ IF detectSettlement(f) = "fulfilled"
       THEN /\ handlers' = (handlers (-) SetToBag({Handler("detect", id)}))
                               (+) SetToBag({Handler("load", id)})
            /\ panel' = [panel EXCEPT !.loading = TRUE]
       ELSE /\ handlers' = handlers (-) SetToBag({Handler("detect", id)})
            /\ panel' = panel
    /\ UNCHANGED <<loads, nClicks, nChanges, storeVars, scoreVars, simVars, appVars,
                 viewVars>>

\* lines 29-31 and 38: the load of a handler settles; the handler shows the
\* list, clears loading and then detecting
HandlerLoadResolves(id, f) ==
    /\ BagIn(Handler("load", id), handlers)
    /\ handlers' = handlers (-) SetToBag({Handler("load", id)})
    /\ panel' = IF getRelatedChatsSettlement(f) = "fulfilled"
                THEN [panel EXCEPT !.relatedChats = RelatedList(id, f),
                                   !.loading = FALSE, !.detecting = FALSE]
                ELSE panel
    /\ UNCHANGED <<loads, nClicks, nChanges, storeVars, scoreVars, simVars, appVars,
                 viewVars>>

LoadSettles == \E id \in Ids, f \in Outcomes : LoadResolves(id, f)
DetectSettles == \E id \in Ids, f \in Outcomes : DetectResolves(id, f)
HandlerLoadSettles == \E id \in Ids, f \in Outcomes : HandlerLoadResolves(id, f)

NextPanel ==
    \/ \E id \in Ids : ChangeChat(id)
    \/ LoadSettles
    \/ ClickDetect
    \/ DetectSettles
    \/ HandlerLoadSettles

SpecPanel == InitPanel /\ [][NextPanel]_vars

\* every backend call of the panel eventually returns
SpecPanelFair ==
    SpecPanel /\ WF_vars(LoadSettles) /\ WF_vars(DetectSettles)
              /\ WF_vars(HandlerLoadSettles)

\* the detectAndCreateRelationships calls of the panel that have not resolved
DetectsInFlight(id) == CopiesIn(Handler("detect", id), handlers)

\* C13: whatever the clicks on the Detect button and the changes of the
\* viewed chat, at most one detectAndCreateRelationships call is in flight,
\* for any one entry and over all entries: a detection is not started while
\* an earlier one has not resolved.
C13_OneDetectionInFlight ==
    /\ \A id \in Ids : DetectsInFlight(id) <= 1
    /\ Cardinality({id \in Ids : DetectsInFlight(id) > 0}) <= 1

\* a detection is in flight for an entry that is no longer the viewed one,
\* the button is rendered, and an earlier detection has already resolved
C13_Witness ==
    /\ \E id \in Ids : DetectsInFlight(id) = 1 /\ id # panel.chatId
    /\ ~panel.loading
    /\ nClicks = 2

\* C27: for any interleaving of chatId changes, Detect clicks and query
\* completions, whenever loading is false and no request is in flight the
\* displayed related list is the result of getRelatedChats for the current
\* chatId, never that of a request issued for a previously viewed chat.
C27_ListOfCurrentChat ==
    (panel # <<>> /\ ~panel.loading /\ loads = EmptyBag /\ handlers = EmptyBag) =>
        /\ panel.relatedChats # <<>>
        /\ panel.relatedChats[1].chatId = panel.chatId

\* C30: whenever a detection is started from the panel and the backend calls
\* eventually return (successfully or with a failure), the detecting flag
\* eventually returns to false, so the Detect button does not stay
\* disabled forever.
C30_DetectingCleared ==
    (panel # <<>> /\ panel.detecting) ~> (panel # <<>> /\ ~panel.detecting)

\* a detection started from the panel has run to its end, its reload having
\* failed, and the button is enabled again
C30_Witness ==
    /\ nClicks >= 1 /\ handlers = EmptyBag /\ loads = EmptyBag
    /\ DetectButtonEnabled(panel)
    /\ panel.relatedChats = RelatedList(panel.chatId, "throw")

(***************************************************************************)
(* App: the React state (chats, links) and its persistence, in the sqlite  *)
(* database of the Electron main process or in localStorage.  The entries  *)
(* are their ids; a link is [fromId, toId].  state.links is a list that    *)
(* may hold a link twice, kept as a bag; the links table has               *)
(* UNIQUE(from_id, to_id), kept as a set.  The archive is taken to hold    *)
(* enough entries that initApp adds no demo data.                          *)
(***************************************************************************)
MaxOps == 3

Link(fromId, toId) == [fromId |-> fromId, toId |-> toId]

Event(op, fromId, toId) == [op |-> op, fromId |-> fromId, toId |-> toId]

\* the state after initApp has loaded an archive of three entries and no
\* links, from the database or from localStorage
InitApp ==
    /\ electronAPI \in BOOLEAN
    /\ foreignKeys \in BOOLEAN
    /\ electronAPI = FALSE => foreignKeys = FALSE
    /\ state = [chats |-> Ids, links |-> EmptyBag]
    /\ db = IF electronAPI THEN [chats |-> Ids, links |-> {}]
                           ELSE [chats |-> {}, links |-> {}]
    /\ localStorage = IF electronAPI THEN [chats |-> {}, links |-> EmptyBag]
                                     ELSE [chats |-> Ids, links |-> EmptyBag]
    /\ ipc = <<>> /\ replies = <<>> /\ deleted = {} /\ nOps = 0
    /\ event = Event("initApp", "", "")
    /\ InitStoreIdle /\ InitViewIdle /\ InitScoreIdle /\ InitSimIdle /\ InitPanelIdle

\* l joins the two entries, in either direction
Between(l, fromId, toId) ==
    \/ (l.fromId = fromId /\ l.toId = toId)
    \/ (l.fromId = toId /\ l.toId = fromId)

\* l has the entry at one of its ends
Touches(l, id) == l.fromId = id \/ l.toId = id

\* variant: only the direction fromId -> toId is filtered out
withoutLink_oneWay(links, fromId, toId) ==
    LET keep(l) == ~(l.fromId = fromId /\ l.toId = toId)
    IN  Restrict(links, keep)

\* prev.links.filter(l => !(l.fromId === fromId && l.toId === toId) &&
\*                        !(l.fromId === toId && l.toId === fromId))
withoutLink(links, fromId, toId) ==
    LET keep(l) == ~Between(l, fromId, toId)
    IN  Restrict(links, keep)

\* prev.links.filter(l => l.fromId !== id && l.toId !== id)
withoutEntry(links, id) ==
    LET keep(l) == ~Touches(l, id)
    IN  Restrict(links, keep)

\* the effects on [state.chats] and [state.links] in the browser: both
\* items are rewritten from the state
setItems(st) == [chats |-> st.chats, links |-> st.links]

\* handleAddLink(fromId, toId): with Electron it sends add-link and waits,
\* otherwise it appends the link to the state at once
handleAddLink(fromId, toId) ==
    /\ nOps < MaxOps
    /\ fromId # toId /\ {fromId, toId} \subseteq state.chats
    /\ nOps' = nOps + 1
    /\ event' = Event("handleAddLink", fromId, toId)
    /\ IF electronAPI
       THEN /\ ipc' = Append(ipc, Event("add-link", fromId, toId))
            /\ UNCHANGED <<state, localStorage>>
       ELSE /\ state' = [state EXCEPT
                           !.links = @ (+) SetToBag({Link(fromId, toId)})]
            /\ localStorage' = setItems(state')
            /\ UNCHANGED ipc
    /\ UNCHANGED <<electronAPI, foreignKeys, db, replies, deleted,
                   storeVars, scoreVars, simVars, panelVars, viewVars>>

\* handleRemoveLink(fromId, toId): with Electron it sends remove-link and
\* waits, otherwise it filters the state at once
handleRemoveLink(fromId, toId) ==
    /\ nOps < MaxOps
    /\ fromId # toId /\ {fromId, toId} \subseteq state.chats
    /\ nOps' = nOps + 1
    /\ event' = Event("handleRemoveLink", fromId, toId)
    /\ IF electronAPI
       THEN /\ ipc' = Append(ipc, Event("remove-link", fromId, toId))
            /\ UNCHANGED <<state, localStorage>>
       ELSE /\ state' = [state EXCEPT !.links = withoutLink(@, fromId, toId)]
            /\ localStorage' = setItems(state')
            /\ UNCHANGED ipc
    /\ UNCHANGED <<electronAPI, foreignKeys, db, replies, deleted,
                   storeVars, scoreVars, simVars, panelVars, viewVars>>

\* handleDelete(id) and the effects that follow the render: with Electron
\* save-database is sent with the remaining chats, otherwise the two
\* localStorage items are rewritten
handleDelete(id) ==
    /\ nOps < MaxOps
    /\ id \in state.chats
    /\ nOps' = nOps + 1
    /\ event' = Event("handleDelete", id, id)
    /\ state' = [chats |-> state.chats \ {id},
                 links |-> withoutEntry(state.links, id)]
    /\ deleted' = deleted \cup {id}
    /\ IF electronAPI
       THEN /\ ipc' = Append(ipc, [op |-> "save-database", items |-> state'.chats])
            /\ UNCHANGED localStorage
       ELSE /\ localStorage' = setItems(state')
            /\ UNCHANGED ipc
    /\ UNCHANGED <<electronAPI, foreignKeys, db, replies,
                   storeVars, scoreVars, simVars, panelVars, viewVars>>

\* add-link: INSERT OR IGNORE INTO links; with foreign keys enforced the
\* insert fails (and false is returned) when an end is not in chats
addLink(d, fromId, toId) ==
    IF foreignKeys /\ ~({fromId, toId} \subseteq d.chats) THEN d
    ELSE [d EXCEPT !.links = @ \cup {Link(fromId, toId)}]

\* remove-link: DELETE FROM links WHERE (from_id = ? AND to_id = ?)
\*                                   OR (from_id = ? AND to_id = ?)
removeLink(d, fromId, toId) ==
    [d EXCEPT !.links = {l \in @ : ~Between(l, fromId, toId)}]

\* save-database: INSERT OR REPLACE INTO chats for every item.  REPLACE
\* deletes the row that has the id before it inserts; with foreign keys
\* enforced that delete cascades to the links of the row.
saveDatabase(d, items) ==
    [chats |-> d.chats \cup items,
     links |-> IF foreignKeys
               THEN {l \in d.links : {l.fromId, l.toId} \cap (items \cap d.chats) = {}}
               ELSE d.links]

\* the main process handles the next message
MainHandles ==
    /\ ipc # <<>>
    /\ LET m == Head(ipc)
       IN  /\ db' = CASE m.op = "add-link" -> addLink(db, m.fromId, m.toId)
                      [] m.op = "remove-link" -> removeLink(db, m.fromId, m.toId)
                      [] OTHER -> saveDatabase(db, m.items)
           /\ replies' = IF m.op = "save-database" THEN replies
                         ELSE Append(replies, m)
           /\ event' = IF m.op = "save-database" THEN Event(m.op, "", "")
                       ELSE m
    /\ ipc' = Tail(ipc)
    /\ UNCHANGED <<electronAPI, foreignKeys, state, localStorage, deleted, nOps,
                   storeVars, scoreVars, simVars, panelVars, viewVars>>

\* lines 253 and 260-266: a handler resumes after its await and updates the
\* state
Resume ==
    /\ replies # <<>>
    /\ LET m == Head(replies)
       IN  /\ state' = IF m.op = "add-link"
                       THEN [state EXCEPT
                               !.links = @ (+) SetToBag({Link(m.fromId, m.toId)})]
                       ELSE [state EXCEPT
                               !.links = withoutLink(@, m.fromId, m.toId)]
           /\ event' = Event(IF m.op = "add-link" THEN "resumeAddLink"
                             ELSE "resumeRemoveLink", m.fromId, m.toId)
    /\ replies' = Tail(replies)
    /\ UNCHANGED <<electronAPI, foreignKeys, db, localStorage, ipc, deleted, nOps,
                   storeVars, scoreVars, simVars, panelVars, viewVars>>

\* the application is closed with nothing pending and started again:
\* initApp loads the state from the database or from localStorage
Restart ==
    /\ nOps < MaxOps
    /\ ipc = <<>> /\ replies = <<>>
    /\ nOps' = nOps + 1
    /\ event' = Event("initApp", "", "")
    /\ state' = IF electronAPI
                THEN [chats |-> db.chats, links |-> SetToBag(db.links)]
                ELSE [chats |-> localStorage.chats, links |-> localStorage.links]
    /\ UNCHANGED <<electronAPI, foreignKeys, db, localStorage, ipc, replies, deleted,
                   storeVars, scoreVars, simVars, panelVars, viewVars>>

NextApp ==
    \/ \E fromId, toId \in Ids : handleAddLink(fromId, toId)
    \/ \E fromId, toId \in Ids : handleRemoveLink(fromId, toId)
    \/ \E id \in Ids : handleDelete(id)
    \/ MainHandles
    \/ Resume
    \/ Restart

SpecApp == InitApp /\ [][NextApp]_vars

\* the program in either of its two generations: the relationship service
\* with its calls run one at a time and its requests succeeding, or the App
InitLinks == InitStoreSpec \/ InitApp

NextLinks ==
    \/ (call # <<>> /\ Next)
    \/ (state # <<>> /\ NextApp)

SpecLinks == InitLinks /\ [][NextLinks]_vars

\* the rows of table that join a and b, in either direction
RowsBetween(table, a, b) ==
    {r \in BagToSet(table) : Key(r) \in {<<a, b>>, <<b, a>>}}

\* the two tables hold the same rows, as often, outside the pair {a, b}
SameElsewhere(t1, t2, a, b) ==
    \A r \in (BagToSet(t1) \cup BagToSet(t2)) \ (RowsBetween(t1, a, b) \cup RowsBetween(t2, a, b)) :
        CopiesIn(r, t1) = CopiesIn(r, t2)

\* the links of the list that join the two entries, in either direction
RowsBetweenLinks(links, fromId, toId) ==
    {l \in BagToSet(links) : Between(l, fromId, toId)}

\* the removal of the pair {fromId, toId} from links has given links2
LinkRemoved(links, links2, fromId, toId) ==
    /\ \A l \in links2 : ~Between(l, fromId, toId)
    /\ \A l \in links \cup links2 :
           ~Between(l, fromId, toId) => (l \in links <=> l \in links2)

\* C16: after removeRelationship(A, B) (handleRemoveLink and remove-link in
\* the App) has completed without a backend failure, neither A->B nor B->A
\* exists, and no step of it changes an edge of any other ordered pair.
C16_RemovesBothDirections ==
    /\ [](call # <<>> =>
            \A s \in Slots :
                (call[s].op = "remove" /\ call[s].pc = "done" /\ ~call[s].failed)
                    => RowsBetween(rels, call[s].a, call[s].b) = {})
    /\ [][call # <<>> =>
            \A s \in Slots :
                (call[s].op = "remove" /\ call[s].pc \in {"delete1", "delete2"})
                    => SameElsewhere(rels, rels', call[s].a, call[s].b)]_vars
    /\ [][(state # <<>> /\ event'.op = "remove-link") =>
            /\ LinkRemoved(db.links, db'.links, event'.fromId, event'.toId)
            /\ db'.chats = db.chats]_vars
    /\ [][(state # <<>> /\ \/ event'.op = "resumeRemoveLink"
                            \/ (event'.op = "handleRemoveLink" /\ ~electronAPI)) =>
            /\ RowsBetweenLinks(state'.links, event'.fromId, event'.toId) = {}
            /\ \A l \in BagToSet(state.links) \cup BagToSet(state'.links) :
                   ~Between(l, event'.fromId, event'.toId) =>
                       CopiesIn(l, state.links) = CopiesIn(l, state'.links)
            /\ state'.chats = state.chats]_vars

\* removeRelationship has returned and an edge of another pair, sharing an
\* entry with the removed pair, is in the table
C16_Witness ==
    /\ call # <<>>
    /\ \E s \in Slots :
          /\ call[s].op = "remove" /\ call[s].pc = "done"
          /\ \E r \in Rows : r.source_chat_id \in {call[s].a, call[s].b}

\* nothing of the entry is left in the React state
GoneFromState(id) ==
    /\ id \notin state.chats
    /\ \A l \in BagToSet(state.links) : ~Touches(l, id)

\* nothing of the entry is left in the store the state is loaded from
GoneFromStore(id) ==
    IF electronAPI
    THEN id \notin db.chats /\ \A l \in db.links : ~Touches(l, id)
    ELSE /\ id \notin localStorage.chats
         /\ \A l \in BagToSet(localStorage.links) : ~Touches(l, id)

\* C20: after handleDelete(id) the entry is gone and no link with id as its
\* source or target remains, in the state and, once the pending messages
\* are handled, in the store; the deletion leaves all other entries and
\* links as they were.
C20_DeleteCascades ==
    /\ [](\A id \in deleted :
            /\ GoneFromState(id)
            /\ (ipc = <<>> /\ replies = <<>>) => GoneFromStore(id))
    /\ [][(event'.op = "handleDelete" /\ nOps' = nOps + 1) =>
            /\ state'.chats = state.chats \ {event'.fromId}
            /\ \A l \in BagToSet(state.links) :
                   ~Touches(l, event'.fromId) =>
                       CopiesIn(l, state'.links) = CopiesIn(l, state.links)]_vars

====
